---- MODULE Spec2Model ----
(***************************************************************************)
(* Model of backend/detector.py (class BiasDetector) and of the way        *)
(* backend/main.py drives one engine instance.                             *)
(*                                                                         *)
(* A DataFrame is [columns |-> set of column names, rows |-> sequence of   *)
(* records]; a row record carries its index label in the field "name" and  *)
(* one field per column.  Timestamps are whole seconds, numeric cells are  *)
(* integers, and NaN is one reserved integer.  Floating-point quantities   *)
(* (means, standard deviations, ratios) are kept as exact fractions and    *)
(* compared by cross-multiplication.                                       *)
(***************************************************************************)
EXTENDS Integers, Sequences, FiniteSets, TLC

VARIABLES
    input,      \* the DataFrame handed to BiasDetector(df)
    df,         \* self.df
    results,    \* <<>> while the instance has no attribute 'results', else <<self.results>>
    computed,   \* how many times the body of run_all_tests has executed the six detectors
    ret         \* [op |-> name of the last call, value |-> what it returned]

vars == <<input, df, results, computed, ret>>

(***************************************************************************)
(* Bounds of the model.                                                    *)
(***************************************************************************)
MaxLen == 2        \* longest exhaustively enumerated log
MaxRuns == 2       \* cap on the executions of run_all_tests that are counted

(***************************************************************************)
(* Numbers.                                                                *)
(***************************************************************************)
NaN == -1000000

isna(v) == v = NaN

\* a < b as an IEEE comparison: false as soon as one side is NaN
Lt(a, b) == ~isna(a) /\ ~isna(b) /\ a < b

Abs(v) == IF v < 0 THEN -v ELSE v

\* s[lo] + ... + s[hi], by halving
RECURSIVE SumRange(_, _, _)
SumRange(s, lo, hi) ==
    IF lo > hi THEN 0
    ELSE IF lo = hi THEN s[lo]
    ELSE LET mid == (lo + hi) \div 2
         IN  SumRange(s, lo, mid) + SumRange(s, mid + 1, hi)

SumSeq(s) == SumRange(s, 1, Len(s))

SetMax(S) == CHOOSE m \in S : \A o \in S : o <= m
SetMin(S) == CHOOSE m \in S : \A o \in S : m <= o

Column(rows, c) == [i \in 1..Len(rows) |-> rows[i][c]]

Head_all(s, n) == s
Head_n(s, n) == IF Len(s) <= n THEN s ELSE SubSeq(s, 1, n)
Tail_n(s, n) == IF Len(s) <= n THEN s ELSE SubSeq(s, Len(s) - n + 1, Len(s))

\* round(num/den, d) as a count of 10^-d units, ties to even, den > 0
RoundDiv(num, den, scale) ==
    LET n == num * scale
        q == n \div den
        r == n - q * den
    IN  IF 2 * r < den THEN q
        ELSE IF 2 * r > den THEN q + 1
        ELSE IF q % 2 = 0 THEN q ELSE q + 1

\* with_field(r, f, v): the row r after df[f] = ... has written v into it
SetField(r, f, v) == [c \in DOMAIN r \cup {f} |-> IF c = f THEN v ELSE r[c]]

(***************************************************************************)
(* Input logs.  main.py reads the CSV with pd.read_csv, so the index label *)
(* ("name") of a row is its 0-based position in the uploaded file.         *)
(***************************************************************************)
BaseColumns == {"timestamp", "side", "quantity", "profit_loss"}
NumericColumns == {"quantity", "profit_loss", "balance", "duration"}
OptionalColumns == {{}, {"balance"}, {"close_time"}}

SecondsPerHour == 3600

\* cells: a sequence of [timestamp, side, quantity, profit_loss] records
MakeFrame(cells, extra) ==
    [columns |-> BaseColumns \cup extra,
     rows |-> [i \in 1..Len(cells) |->
                  [c \in {"name"} \cup BaseColumns \cup extra |->
                      CASE c = "name" -> i - 1
                        [] c = "balance" -> 100 - 7 * i
                        [] c = "close_time" -> cells[i].timestamp + 30 * i
                        [] OTHER -> cells[i][c]]]]

Tpl(s, q, p) == [side |-> s, quantity |-> q, profit_loss |-> p]

Cell(timestamp, t) ==
    [timestamp |-> timestamp, side |-> t.side, quantity |-> t.quantity,
     profit_loss |-> t.profit_loss]

\* every log of at most MaxLen rows over two timestamps (an hour apart) and three
\* kinds of row: a loss, a win, and a row whose profit_loss cell is empty
SmallKinds == {Tpl("BUY", 1, -3), Tpl("sell", 3, 5), Tpl("BUY", 5, NaN)}
SmallCells == {Cell(ts, t) : ts \in {0, SecondsPerHour}, t \in SmallKinds}

SmallLogs ==
    UNION {{MakeFrame(cells, extra) : cells \in [1..n -> SmallCells], extra \in OptionalColumns}
           : n \in 0..MaxLen}

\* n rows of template a, then the rows of tail, one every `step` seconds from `start`
Run(n, a, tail, start, step) ==
    MakeFrame([i \in 1..(n + Len(tail)) |->
                  Cell(start + (i - 1) * step, IF i <= n THEN a ELSE tail[i - n])],
              {})

ShortCounts == {4, 5, 9, 14, 15}
LongCounts == {99, 100, 150, 151}
RunHeads == {Tpl("BUY", 1, -1), Tpl("buy", 1, 5), Tpl("SELL", 2, -2)}
RunTails == {<<>>, <<Tpl("SELL", 10, -1)>>, <<Tpl("BUY", 1, 2)>>,
             <<Tpl("SELL", 1, -9), Tpl("SELL", 9, 1)>>}

RunLogs ==
    {Run(n, a, tail, start, 1) :
        n \in ShortCounts, a \in RunHeads, tail \in RunTails, start \in {0, 3590}}
    \cup
    {Run(n, Tpl("BUY", 1, -1), tail, start, 1) :
        n \in LongCounts, tail \in {<<>>, <<Tpl("SELL", 10, -1)>>}, start \in {0, 3500}}

\* the worked examples of the specification's section 8, and three trades in one second
ExampleLogs ==
    {Run(5, Tpl("BUY", 10, 1), <<Tpl("BUY", 10, -5), Tpl("BUY", 100, 1)>>, 0, 60),
     Run(0, Tpl("BUY", 1, 1), <<Tpl("BUY", 1, 5), Tpl("SELL", 1, -3), Tpl("BUY", 1, 2)>>, 0, 60),
     Run(2, Tpl("BUY", 1, 10), <<Tpl("SELL", 1, -10), Tpl("SELL", 1, -50)>>, 0, 60),
     Run(5, Tpl("BUY", 10, 1), <<Tpl("SELL", 10, -5), Tpl("SELL", 100, -5)>>, 0, 1),
     Run(0, Tpl("BUY", 1, 1), <<Tpl("BUY", 1, 5), Tpl("SELL", 1, 5), Tpl("BUY", 1, 5)>>, 0, 0)}

\* logs with more evidence than a result shows: six oversized trades after losses among
\* 70, and four hours of BurstLen trades each, bought and sold in turn
BurstLen == 151
BurstHours == 4

CapLogs ==
    {Run(64, Tpl("BUY", 1, -1), [k \in 1..6 |-> Tpl("SELL", 10, -1)], 0, 1),
     MakeFrame([i \in 1..(BurstHours * BurstLen) |->
                   Cell(((i - 1) \div BurstLen) * SecondsPerHour + ((i - 1) % BurstLen),
                        Tpl(IF ((i - 1) \div BurstLen) % 2 = 0 THEN "BUY" ELSE "SELL", 1, 1))],
               {})}

\* twelve losing trades a second apart, then a winning trade and an oversized trade
\* that carry the same timestamp
TiedLogs ==
    {MakeFrame([i \in 1..14 |->
                   Cell(IF i = 14 THEN 12 ELSE i - 1,
                        IF i <= 12 THEN Tpl("BUY", 1, -1)
                        ELSE IF i = 13 THEN Tpl("SELL", 1, 5) ELSE Tpl("SELL", 10, -1))],
               {})}

Logs == SmallLogs \cup RunLogs \cup ExampleLogs \cup CapLogs \cup TiedLogs

(***************************************************************************)
(* BiasDetector.__init__                                                   *)
(***************************************************************************)
\* The arrangements of rows[i], i \in idx, that ascend in column `by`.  The order
\* among equal keys is the sort algorithm's (kind='quicksort' is not stable), so
\* every such arrangement is a possible outcome.
RECURSIVE Ascending(_, _, _)
Ascending(rows, by, idx) ==
    IF idx = {} THEN {<<>>}
    ELSE LET least == SetMin({rows[i][by] : i \in idx})
         IN  UNION {{<<rows[i]>> \o rest : rest \in Ascending(rows, by, idx \ {i})}
                    : i \in {j \in idx : rows[j][by] = least}}

sort_values_unsorted(rows, by) == {rows}

\* DataFrame.sort_values(by); with pairwise distinct keys there is one arrangement
sort_values(rows, by) ==
    IF Cardinality({rows[i][by] : i \in 1..Len(rows)}) = Len(rows)
    THEN {SortSeq(rows, LAMBDA a, b : a[by] < b[by])}
    ELSE Ascending(rows, by, 1..Len(rows))

fillna(rows, cols) ==
    [i \in 1..Len(rows) |->
        [c \in DOMAIN rows[i] |->
            IF c \in cols /\ isna(rows[i][c]) THEN 0 ELSE rows[i][c]]]

with_duration(frame) ==
    IF "duration" \notin frame.columns /\ "close_time" \in frame.columns
    THEN [columns |-> frame.columns \cup {"duration"},
          rows |-> [i \in 1..Len(frame.rows) |->
                       SetField(frame.rows[i], "duration",
                                frame.rows[i].close_time - frame.rows[i].timestamp)]]
    ELSE frame

\* DataFrame.empty
empty_never(frame) == FALSE
empty(frame) == frame.rows = <<>>

\* the values self.df can have after BiasDetector(frame)
BiasDetector(frame) ==
    {with_duration([columns |-> frame.columns,
                    rows |-> fillna(sorted, frame.columns \cap NumericColumns)])
     : sorted \in IF empty(frame) THEN {frame.rows}
                  ELSE sort_values(frame.rows, "timestamp")}


_safe_float(value) == IF isna(value) THEN 0 ELSE value

str(v) == ToString(v)

_format_example(row, reason) ==
    [trade_id |-> str(row.name),
     date |-> IF "timestamp" \in DOMAIN row THEN str(row.timestamp) ELSE "N/A",
     pnl |-> IF "profit_loss" \in DOMAIN row THEN _safe_float(row.profit_loss) ELSE 0,
     reason |-> reason]

(***************************************************************************)
(* Helpers shared by the detectors.                                        *)
(***************************************************************************)
DetectionResult(detected, metric, summary, examples) ==
    [detected |-> detected, metric |-> metric, summary |-> summary, examples |-> examples]

\* self.df[col] = values
assign_newest_first(frame, col, values) ==
    [columns |-> frame.columns \cup {col},
     rows |-> [i \in 1..Len(frame.rows) |->
                  SetField(frame.rows[Len(frame.rows) + 1 - i], col,
                           values[Len(frame.rows) + 1 - i])]]

assign(frame, col, values) ==
    [columns |-> frame.columns \cup {col},
     rows |-> [i \in 1..Len(frame.rows) |-> SetField(frame.rows[i], col, values[i])]]

\* Series.shift(1): the first element has no predecessor
shift(s) == [i \in 1..Len(s) |-> IF i = 1 THEN NaN ELSE s[i - 1]]

\* rows.sort_values(by).head(n); rows with equal keys are taken in frame order
RECURSIVE Smallest(_, _, _, _)
Smallest(rows, by, idx, n) ==
    IF idx = {} \/ n = 0 THEN <<>>
    ELSE LET least == SetMin({rows[i][by] : i \in idx})
             first == SetMin({i \in idx : rows[i][by] = least})
         IN  <<rows[first]>> \o Smallest(rows, by, idx \ {first}, n - 1)

sort_values_head(rows, by, n) == Smallest(rows, by, 1..Len(rows), n)

\* the elements of a set of integers in ascending order
RECURSIVE SortedSeq(_)
SortedSeq(S) ==
    IF S = {} THEN <<>> ELSE LET m == SetMin(S) IN <<m>> \o SortedSeq(S \ {m})

Squares(s) == [i \in 1..Len(s) |-> s[i] * s[i]]

\* Len(s) * (Len(s) - 1) * (sample variance of s); Series.std() is its root over
\* Len(s) * (Len(s) - 1), and is NaN for fewer than two values
VarNum(s) == Len(s) * SumSeq(Squares(s)) - SumSeq(s) * SumSeq(s)

RECURSIVE GCD(_, _)
GCD(a, b) == IF b = 0 THEN a ELSE GCD(b, a % b)

\* the text of round(num/den, 2) for num >= 0, den > 0, as Python prints a float
FloatStr2(num, den) ==
    LET u == RoundDiv(num, den, 100)
        whole == u \div 100
        frac == u % 100
    IN  str(whole) \o "." \o
        (IF frac % 10 = 0 THEN str(frac \div 10)
         ELSE IF frac < 10 THEN "0" \o str(frac) ELSE str(frac))

\* The text of a square root: round(sqrt(num/den), 2) is not computed, the text
\* names the exact radicand in lowest terms (equal radicands print alike).
SqrtStr(num, den) ==
    LET g == GCD(num, den) IN "sqrt(" \o str(num \div g) \o "/" \o str(den \div g) \o ")"

(***************************************************************************)
(* The six detectors.  Each yields [df |-> self.df after the call,         *)
(* value |-> the returned DetectionResult].  An evidence "reason" is the   *)
(* sequence of the parts of the formatted text; a number rounded to one    *)
(* decimal is given in tenths, one rounded to two decimals in hundredths.  *)
(***************************************************************************)
to_period_h(timestamp) == timestamp \div SecondsPerHour

\* threshold = 150; is_overtrading = max_trades_hour > threshold
overtrading_threshold == 150
is_overtrading_at_limit(max_trades_hour) == max_trades_hour >= overtrading_threshold
is_overtrading(max_trades_hour) == max_trades_hour > overtrading_threshold

detect_overtrading(d) ==
    IF empty(d)
    THEN [df |-> d, value |-> DetectionResult(FALSE, "No Data", "Insufficient data.", <<>>)]
    ELSE
    LET d1 == assign(d, "hour", [i \in 1..Len(d.rows) |-> to_period_h(d.rows[i].timestamp)])
        hours == {d1.rows[i].hour : i \in 1..Len(d1.rows)}
        hourly_counts == [h \in hours |-> Cardinality({i \in 1..Len(d1.rows) : d1.rows[i].hour = h})]
        max_trades_hour == IF hours = {} THEN 0 ELSE SetMax({hourly_counts[h] : h \in hours})
        threshold == overtrading_threshold
        bad_hours == SortedSeq({h \in hours : hourly_counts[h] > threshold})
        shown == Head_n(bad_hours, 3)
        examples == IF is_overtrading(max_trades_hour)
                    THEN [k \in 1..Len(shown) |->
                            [date |-> str(shown[k]),
                             metric |-> str(hourly_counts[shown[k]]) \o " trades",
                             reason |-> "Exceeded limit of " \o str(threshold) \o " trades/hr",
                             context |-> "High Frequency Burst"]]
                    ELSE <<>>
    IN  [df |-> d1,
         value |-> DetectionResult(
            is_overtrading(max_trades_hour),
            str(max_trades_hour) \o " trades/hr (Limit: " \o str(threshold) \o ")",
            IF is_overtrading(max_trades_hour) THEN "Extreme trading frequency detected in short bursts."
            ELSE "Trade frequency is within normal limits.",
            examples)]

detect_loss_aversion(d) ==
    IF empty(d)
    THEN [df |-> d, value |-> DetectionResult(FALSE, "No Data", "Insufficient data.", <<>>)]
    ELSE
    LET wins == SelectSeq(d.rows, LAMBDA r : r.profit_loss > 0)
        losses == SelectSeq(d.rows, LAMBDA r : r.profit_loss < 0)
        \* avg_win = win_sum / win_n, avg_loss = loss_sum / loss_n  (0.0 when empty)
        win_sum == SumSeq(Column(wins, "profit_loss"))
        win_n == IF wins = <<>> THEN 1 ELSE Len(wins)
        loss_sum == SumSeq([i \in 1..Len(losses) |-> Abs(losses[i].profit_loss)])
        loss_n == IF losses = <<>> THEN 1 ELSE Len(losses)
        avg_win_positive == win_sum > 0
        \* avg_loss > avg_win * 1.75
        is_averse == 4 * loss_sum * win_n > 7 * win_sum * loss_n
        bad_losses == sort_values_head(losses, "profit_loss", 5)
        examples == IF is_averse
                    THEN [k \in 1..Len(bad_losses) |->
                            _format_example(bad_losses[k],
                                <<"Loss is ",
                                  IF avg_win_positive
                                  THEN RoundDiv(Abs(bad_losses[k].profit_loss) * win_n, win_sum, 10)
                                  ELSE 0,
                                  "x larger than avg win">>)]
                    ELSE <<>>
    IN  [df |-> d,
         value |-> DetectionResult(
            is_averse,
            "Loss/Win Ratio: " \o
                (IF avg_win_positive THEN FloatStr2(loss_sum * win_n, win_sum * loss_n)
                 ELSE FloatStr2(0, 1)) \o "x",
            IF is_averse THEN "Your average losses are significantly larger than your winners."
            ELSE "Risk management is disciplined.",
            examples)]

\* if len(loss_following_trades) < 5: "Insufficient Data"
too_few_post_loss_none(count) == count < 1
too_few_post_loss(count) == count < 5

\* anomaly_ratio = anomaly_count / len(loss_following_trades); is_revenge = anomaly_ratio > 0.01
is_revenge_any(anomaly_count, post_loss_count) == anomaly_count > 0
is_revenge(anomaly_count, post_loss_count) == 100 * anomaly_count > post_loss_count

detect_revenge_trading(d) ==
    IF empty(d)
    THEN [df |-> d, value |-> DetectionResult(FALSE, "No Data", "Insufficient Data", <<>>)]
    ELSE
    LET d1 == assign(d, "prev_pl", shift(Column(d.rows, "profit_loss")))
        loss_following_trades == SelectSeq(d1.rows, LAMBDA r : Lt(r.prev_pl, 0))
        quantity == Column(d1.rows, "quantity")
        n == Len(quantity)
        total == SumSeq(quantity)            \* user_avg_size = total / n
        var_num == VarNum(quantity)          \* user_std_dev = sqrt(var_num / (n * (n - 1)))
        \* (q - user_avg_size) / user_std_dev > 3
        z_above_3(q) == n * q > total /\ (n * q - total) * (n * q - total) * (n - 1) > 9 * n * var_num
        anomalies == SelectSeq(loss_following_trades,
                               LAMBDA r : z_above_3(r.quantity) /\ n * r.quantity > 2 * total)
        anomaly_count == Len(anomalies)
        revenge == is_revenge(anomaly_count, Len(loss_following_trades))
        shown == Head_n(anomalies, 5)
        examples == IF revenge
                    THEN [k \in 1..Len(shown) |->
                            _format_example(shown[k],
                                <<"Size: ", shown[k].quantity, " (Avg: ",
                                  RoundDiv(total, n, 10), ") after Loss">>)]
                    ELSE <<>>
    IN  IF too_few_post_loss(Len(loss_following_trades))
        THEN [df |-> d1,
              value |-> DetectionResult(FALSE, "Insufficient Data",
                                        "Not enough post-loss trades to analyze.", <<>>)]
        ELSE IF n < 2 \/ var_num = 0
        THEN [df |-> d1,
              value |-> DetectionResult(FALSE, "Stable Sizing",
                                        "You never change your position size.", <<>>)]
        ELSE [df |-> d1,
              value |-> DetectionResult(
                 revenge,
                 str(anomaly_count) \o " statistical outliers",
                 IF revenge
                 THEN "AI detected distinct spikes in risk that deviate from your normal baseline."
                 ELSE "Your risk sizing is statistically consistent, even after losses.",
                 examples)]

upper(s) == CASE s = "buy" -> "BUY" [] s = "sell" -> "SELL" [] OTHER -> s

\* (flags != flags.shift()).cumsum(): the streak number of every row, the count of
\* the rows up to it that differ from their predecessor (the first row always does)
StreakIds(flags) ==
    [i \in 1..Len(flags) |->
        Cardinality({j \in 1..i : j = 1 \/ flags[j] # flags[j - 1]})]

\* threshold = 15; is_fallacy = max_streak >= threshold
streak_threshold == 15
is_fallacy_above(max_streak) == max_streak > streak_threshold
is_fallacy(max_streak) == max_streak >= streak_threshold

detect_monte_carlo_fallacy(d) ==
    IF empty(d)
    THEN [df |-> d, value |-> DetectionResult(FALSE, "No Data", "Insufficient Data", <<>>)]
    ELSE
    LET d1 == assign(d, "is_buy", [i \in 1..Len(d.rows) |-> upper(d.rows[i].side) = "BUY"])
        streaks == StreakIds(Column(d1.rows, "is_buy"))
        ids == {streaks[i] : i \in 1..Len(streaks)}
        streak_counts == [g \in ids |-> Cardinality({i \in 1..Len(streaks) : streaks[i] = g})]
        max_streak == IF ids = {} THEN 0 ELSE SetMax({streak_counts[g] : g \in ids})
        threshold == streak_threshold
        long_streaks == Head_n(SortedSeq({g \in ids : streak_counts[g] >= threshold}), 3)
        first_trade(g) == d1.rows[SetMin({i \in 1..Len(streaks) : streaks[i] = g})]
        examples == IF is_fallacy(max_streak)
                    THEN [k \in 1..Len(long_streaks) |->
                            [date |-> str(first_trade(long_streaks[k]).timestamp),
                             metric |-> str(streak_counts[long_streaks[k]]) \o " Consecutive " \o
                                        (IF first_trade(long_streaks[k]).is_buy THEN "BUY" ELSE "SELL")
                                        \o "s",
                             reason |-> "Probabilistic anomaly (Gambler's Fallacy)",
                             context |-> "Trend/Streak"]]
                    ELSE <<>>
    IN  [df |-> d1,
         value |-> DetectionResult(
            is_fallacy(max_streak),
            "Max streak: " \o str(max_streak),
            IF is_fallacy(max_streak)
            THEN "You bet in the same direction " \o str(max_streak) \o " times in a row."
            ELSE "No irrational streak betting detected.",
            examples)]

detect_disposition_effect(d) ==
    IF empty(d)
    THEN [df |-> d, value |-> DetectionResult(FALSE, "N/A", "No Data", <<>>)]
    ELSE
    LET wins == SelectSeq(d.rows, LAMBDA r : r.profit_loss > 0)
        losses == SelectSeq(d.rows, LAMBDA r : r.profit_loss < 0)
        win_sum == SumSeq(Column(wins, "profit_loss"))       \* avg_win_pl = win_sum / len(wins)
        loss_sum == SumSeq([i \in 1..Len(losses) |-> Abs(losses[i].profit_loss)])
        is_dispo == Len(wins) > Len(losses) * 5 /\ win_sum * Len(losses) < loss_sum * Len(wins)
        tiny_wins == sort_values_head(wins, "profit_loss", 5)
        examples == IF is_dispo
                    THEN [k \in 1..Len(tiny_wins) |->
                            _format_example(tiny_wins[k],
                                <<"Profit: $", tiny_wins[k].profit_loss, " (Avg Loss: $",
                                  RoundDiv(loss_sum, Len(losses), 100), ")">>)]
                    ELSE <<>>
    IN  IF wins = <<>> \/ losses = <<>>
        THEN [df |-> d,
              value |-> DetectionResult(FALSE, "N/A", "Insufficient win/loss data.", <<>>)]
        ELSE [df |-> d,
              value |-> DetectionResult(
                 is_dispo,
                 "N/A",
                 IF is_dispo THEN "Likely taking small profits quickly while letting losses run."
                 ELSE "No clear evidence of the disposition effect.",
                 examples)]

detect_recency_bias(d) ==
    IF Len(d.rows) < 10
    THEN [df |-> d, value |-> DetectionResult(FALSE, "N/A", "Not enough data.", <<>>)]
    ELSE
    LET quantity == Column(d.rows, "quantity")
        n == Len(quantity)
        recent == Tail_n(quantity, 5)
        \* recent_volatility = sqrt(recent_num / 20), historical = sqrt(hist_num / (n * (n - 1)))
        recent_num == VarNum(recent)
        hist_num == VarNum(quantity)
        hist_positive == hist_num > 0
        \* ratio > 2.0, ratio * ratio = (recent_num * n * (n - 1)) / (20 * hist_num)
        is_recency == hist_positive /\ recent_num * n * (n - 1) > 80 * hist_num
        recent_trades == Tail_n(d.rows, 5)
        examples == IF is_recency
                    THEN [k \in 1..Len(recent_trades) |->
                            _format_example(recent_trades[k],
                                <<"Size: ", recent_trades[k].quantity, " (Hist Vol: ",
                                  SqrtStr(hist_num, n * (n - 1)), ")">>)]
                    ELSE <<>>
    IN  [df |-> d,
         value |-> DetectionResult(
            is_recency,
            "Recent Volatility: " \o
                (IF hist_positive THEN SqrtStr(recent_num * n * (n - 1), 20 * hist_num)
                 ELSE FloatStr2(0, 1)) \o "x",
            IF is_recency
            THEN "Recent behavior is significantly more erratic than your baseline."
            ELSE "Recent behavior aligns with long-term consistency.",
            examples)]

(***************************************************************************)
(* Aggregation and projections.                                            *)
(***************************************************************************)
\* the dict run_all_tests builds, and self.df after the six calls in the code's order
all_tests(d) ==
    LET o == detect_overtrading(d)
        l == detect_loss_aversion(o.df)
        r == detect_revenge_trading(l.df)
        m == detect_monte_carlo_fallacy(r.df)
        p == detect_disposition_effect(m.df)
        c == detect_recency_bias(p.df)
    IN  [df |-> c.df,
         value |-> [overtrading |-> o.value, loss_aversion |-> l.value,
                    revenge_trading |-> r.value, monte_carlo |-> m.value,
                    disposition |-> p.value, recency_bias |-> c.value]]

get_score_zero(res, key) == IF res[key].detected THEN 100 ELSE 0

get_score(res, key) == IF res[key].detected THEN 100 ELSE 20

radar(res) ==
    <<[subject |-> "Overtrading", A |-> get_score(res, "overtrading"), fullMark |-> 150],
      [subject |-> "Loss Aversion", A |-> get_score(res, "loss_aversion"), fullMark |-> 150],
      [subject |-> "Revenge", A |-> get_score(res, "revenge_trading"), fullMark |-> 150],
      [subject |-> "Disposition", A |-> get_score(res, "disposition"), fullMark |-> 150],
      [subject |-> "Monte Carlo", A |-> get_score(res, "monte_carlo"), fullMark |-> 150],
      [subject |-> "Recency", A |-> get_score(res, "recency_bias"), fullMark |-> 150]>>

\* Series.cumsum()
cumsum_no_carry(s) == s

cumsum(s) == [i \in 1..Len(s) |-> SumRange(s, 1, i)]

\* the chart data built from one sorted copy of self.df
chart_data(d, rows) ==
    LET equity == IF "balance" \notin d.columns
                  THEN cumsum(Column(rows, "profit_loss"))
                  ELSE Column(rows, "balance")
        n == Len(rows)
        total == IF "quantity" \in d.columns THEN SumSeq(Column(rows, "quantity")) ELSE 0
        prev_pl == shift(Column(rows, "profit_loss"))
        \* (prev_pl < 0) & (quantity > mean_size * 2), mean_size = total / n
        revenge_mask == [i \in 1..n |-> Lt(prev_pl[i], 0) /\ n * rows[i].quantity > 2 * total]
    IN  [i \in 1..n |->
            [time |-> IF "timestamp" \in DOMAIN rows[i] THEN str(rows[i].timestamp)
                      ELSE "Trade " \o str(rows[i].name),
             equity |-> _safe_float(equity[i]),
             bias |-> IF revenge_mask[i] THEN "Revenge Trade" ELSE "None",
             pnl |-> _safe_float(rows[i].profit_loss)]]

\* the values get_equity_curve can return
get_equity_curve(d) ==
    IF empty(d) THEN {<<>>}
    ELSE {chart_data(d, rows) :
            rows \in IF "timestamp" \in d.columns THEN sort_values(d.rows, "timestamp")
                     ELSE {d.rows}}

(***************************************************************************)
(* The engine instance as a state machine: one action per public method.   *)
(***************************************************************************)
Init ==
    /\ input \in Logs
    /\ df \in BiasDetector(input)
    /\ results = <<>>
    /\ computed = 0
    /\ ret = [op |-> "__init__", value |-> <<>>]

Call(op, outcome) ==
    \E out \in {outcome} :
        /\ df' = out.df
        /\ ret' = [op |-> op, value |-> out.value]
        /\ UNCHANGED <<input, results, computed>>

DetectOvertrading == Call("detect_overtrading", detect_overtrading(df))
DetectLossAversion == Call("detect_loss_aversion", detect_loss_aversion(df))
DetectRevengeTrading == Call("detect_revenge_trading", detect_revenge_trading(df))
DetectMonteCarloFallacy == Call("detect_monte_carlo_fallacy", detect_monte_carlo_fallacy(df))
DetectDispositionEffect == Call("detect_disposition_effect", detect_disposition_effect(df))
DetectRecencyBias == Call("detect_recency_bias", detect_recency_bias(df))

\* run_all_tests: the six detectors run on every call
RunAllTests ==
    /\ computed < MaxRuns
    /\ \E out \in {all_tests(df)} :
           /\ df' = out.df
           /\ results' = <<out.value>>
           /\ ret' = [op |-> "run_all_tests", value |-> out.value]
    /\ computed' = computed + 1
    /\ UNCHANGED input

\* get_radar_data: runs run_all_tests only if the instance has no 'results' yet
GetRadarData ==
    IF results = <<>>
    THEN /\ \E out \in {all_tests(df)} :
                /\ df' = out.df
                /\ results' = <<out.value>>
                /\ ret' = [op |-> "get_radar_data", value |-> radar(out.value)]
         /\ computed' = computed + 1
         /\ UNCHANGED input
    ELSE /\ ret' = [op |-> "get_radar_data", value |-> radar(results[1])]
         /\ UNCHANGED <<input, df, results, computed>>

GetEquityCurve ==
    /\ \E curve \in get_equity_curve(df) : ret' = [op |-> "get_equity_curve", value |-> curve]
    /\ UNCHANGED <<input, df, results, computed>>

Next ==
    \/ DetectOvertrading
    \/ DetectLossAversion
    \/ DetectRevengeTrading
    \/ DetectMonteCarloFallacy
    \/ DetectDispositionEffect
    \/ DetectRecencyBias
    \/ RunAllTests
    \/ GetRadarData
    \/ GetEquityCurve

Spec == Init /\ [][Next]_vars

(***************************************************************************)
(* Properties.                                                             *)
(***************************************************************************)
Returned(op) == ret.op = op

Biases == {"overtrading", "loss_aversion", "revenge_trading", "monte_carlo",
           "disposition", "recency_bias"}

DetectorOf ==
    [overtrading |-> "detect_overtrading", loss_aversion |-> "detect_loss_aversion",
     revenge_trading |-> "detect_revenge_trading", monte_carlo |-> "detect_monte_carlo_fallacy",
     disposition |-> "detect_disposition_effect", recency_bias |-> "detect_recency_bias"]

\* the results of one detector that a state exposes: the entry of the stored mapping
\* and, right after a call of the detector, the value it returned
ResultsOf(bias) ==
    (IF results # <<>> THEN {results[1][bias]} ELSE {})
    \cup (IF Returned(DetectorOf[bias]) THEN {ret.value} ELSE {})

\* C1: over any sequence of run_all_tests, get_radar_data and get_equity_curve calls
\* the six detectors are executed only once; later calls return the stored mapping.
C1_DetectorsRunOnce == computed <= 1

\* the rows that follow a loss, and those among them the detector counts as anomalies
\* (z > 3 and quantity > 2 x mean, mean and deviation taken over the whole log)
PostLoss(d) == {i \in 2..Len(d.rows) : d.rows[i - 1].profit_loss < 0}

ZAbove3(d, i) ==
    LET q == Column(d.rows, "quantity")
        n == Len(q)
        dev == n * q[i] - SumSeq(q)
    IN  dev > 0 /\ dev * dev * (n - 1) > 9 * n * VarNum(q)

AboveTwiceMean(d, i) ==
    LET q == Column(d.rows, "quantity") IN Len(q) * q[i] > 2 * SumSeq(q)

Anomalies(d) == {i \in PostLoss(d) : ZAbove3(d, i) /\ AboveTwiceMean(d, i)}

RevengeAnalysed(d) ==
    Cardinality(PostLoss(d)) >= 5 /\ VarNum(Column(d.rows, "quantity")) # 0

\* C2 (as claimed): with at least 5 post-loss rows and a non-zero deviation,
\* detect_revenge_trading detects exactly when there is at least one anomaly,
\* for any number of post-loss rows.
C2_DetectedIffAnyAnomaly ==
    RevengeAnalysed(df) =>
        \A r \in ResultsOf("revenge_trading") : r.detected <=> (Cardinality(Anomalies(df)) > 0)

\* C2 (amended): with at least 5 post-loss rows and a non-zero deviation,
\* detect_revenge_trading detects exactly when the anomalies are more than 1% of
\* the post-loss rows; below 100 post-loss rows that is: when there is an anomaly.
C2_DetectedIffAboveOnePercent ==
    RevengeAnalysed(df) =>
        \A r \in ResultsOf("revenge_trading") :
            /\ r.detected <=> (100 * Cardinality(Anomalies(df)) > Cardinality(PostLoss(df)))
            /\ Cardinality(PostLoss(df)) < 100 =>
                   (r.detected <=> (Cardinality(Anomalies(df)) > 0))
            /\ r.metric = str(Cardinality(Anomalies(df))) \o " statistical outliers"

\* a log with 100 post-loss rows, one of them an anomaly, has been analysed
C2_Witness ==
    /\ Returned("detect_revenge_trading")
    /\ RevengeAnalysed(df)
    /\ Cardinality(PostLoss(df)) >= 100
    /\ Cardinality(Anomalies(df)) = 1
    /\ ~ret.value.detected

NoWins(d) == ~empty(d) /\ \A i \in 1..Len(d.rows) : ~(d.rows[i].profit_loss > 0)

\* C3: when the average win is zero (a non-empty log without a winning row),
\* detect_loss_aversion reports ratio 0 and detected = false, whatever the losses.
C3_NoWinsNotDetected ==
    NoWins(df) =>
        \A r \in ResultsOf("loss_aversion") :
            r.metric = "Loss/Win Ratio: 0.0x" /\ ~r.detected

AllScores(score) ==
    Returned("get_radar_data") =>
        Len(ret.value) = 6 /\ \A k \in 1..6 : ret.value[k].A = score

\* C4 (as claimed): on an empty log each of the six detectors returns detected = false,
\* an "insufficient/no data" metric and no examples, every radar score is 20 and the
\* equity curve is the empty list.
C4_EmptyLogNoData ==
    Len(input.rows) = 0 =>
        /\ \A b \in Biases : \A r \in ResultsOf(b) :
               ~r.detected /\ r.metric \in {"No Data", "Insufficient Data"} /\ r.examples = <<>>
        /\ AllScores(20)
        /\ Returned("get_equity_curve") => ret.value = <<>>

EmptyLogMetric ==
    [overtrading |-> "No Data", loss_aversion |-> "No Data", revenge_trading |-> "No Data",
     monte_carlo |-> "No Data", disposition |-> "N/A", recency_bias |-> "N/A"]

EmptyLogSummary ==
    [overtrading |-> "Insufficient data.", loss_aversion |-> "Insufficient data.",
     revenge_trading |-> "Insufficient Data", monte_carlo |-> "Insufficient Data",
     disposition |-> "No Data", recency_bias |-> "Not enough data."]

\* C4 (amended): on an empty log each detector returns detected = false and no examples;
\* overtrading, loss aversion, revenge trading and Monte Carlo carry the metric "No Data",
\* disposition and recency bias the metric "N/A" with the summaries "No Data" and
\* "Not enough data."; every radar score is 20 and the equity curve is the empty list.
C4_EmptyLogLabelled ==
    Len(input.rows) = 0 =>
        /\ \A b \in Biases : \A r \in ResultsOf(b) :
               /\ ~r.detected
               /\ r.metric = EmptyLogMetric[b]
               /\ r.summary = EmptyLogSummary[b]
               /\ r.examples = <<>>
        /\ AllScores(20)
        /\ Returned("get_equity_curve") => ret.value = <<>>

\* the radar of an empty log has been computed, which ran the six detectors
C4_Witness == Len(input.rows) = 0 /\ Returned("get_radar_data") /\ results # <<>>

(***************************************************************************)
(* The same rows in another order.  The index labels are the positions in  *)
(* the file, so they follow the order.                                     *)
(***************************************************************************)
MaxPermLen == 3    \* logs up to this length are compared in every order

Orders(n) ==
    IF n <= MaxPermLen
    THEN {o \in [1..n -> 1..n] : \A i, j \in 1..n : o[i] = o[j] => i = j}
    ELSE {[i \in 1..n |-> n + 1 - i],                                  \* reversed
          [i \in 1..n |-> IF i = n THEN 1 ELSE i + 1],                 \* rotated
          [i \in 1..n |-> IF i = 1 THEN 2 ELSE IF i = 2 THEN 1 ELSE i]} \* first two swapped

Reorderings(frame) ==
    {[columns |-> frame.columns,
      rows |-> [i \in 1..Len(frame.rows) |-> SetField(frame.rows[o[i]], "name", i - 1)]]
     : o \in Orders(Len(frame.rows))}

DistinctTimestamps(frame) ==
    \A i, j \in 1..Len(frame.rows) :
        frame.rows[i].timestamp = frame.rows[j].timestamp => i = j

\* a DetectionResult without the trade_id of its evidence
WithoutTradeId(r) ==
    [r EXCEPT !.examples =
        [k \in 1..Len(r.examples) |->
            [f \in DOMAIN r.examples[k] \ {"trade_id"} |-> r.examples[k][f]]]]

Anonymous(res) == [b \in Biases |-> WithoutTradeId(res[b])]

\* C5 (as claimed): two logs holding the same rows in a different order, rows sharing a
\* timestamp included, give the same verdicts, metrics and evidence from run_all_tests.
C5_OrderInvariant ==
    Returned("run_all_tests") =>
        \A f \in Reorderings(input) : \A d \in BiasDetector(f) :
            \A other \in {all_tests(d).value} : other = ret.value

\* C5 (amended): two logs holding the same rows in a different order, all timestamps
\* pairwise distinct, give the same verdicts, metrics and evidence from run_all_tests
\* except for the trade_id of an evidence entry, which is the row's position in its log.
C5_OrderInvariantDistinct ==
    (Returned("run_all_tests") /\ DistinctTimestamps(input)) =>
        \A f \in Reorderings(input) : \A d \in BiasDetector(f) :
            \A other \in {all_tests(d).value} : Anonymous(other) = Anonymous(ret.value)

\* run_all_tests has produced evidence for a log that was not in time order
C5_Witness ==
    /\ Returned("run_all_tests")
    /\ DistinctTimestamps(input)
    /\ \E i \in 1..(Len(input.rows) - 1) : input.rows[i].timestamp > input.rows[i + 1].timestamp
    /\ ret.value.loss_aversion.examples # <<>>

\* the example log of the specification: seven time-ordered rows, five of quantity 10
\* and profit_loss +1, the sixth with profit_loss -5, the seventh of quantity 100
IsRevengeExample(frame) ==
    /\ Len(frame.rows) = 7
    /\ \A i \in 1..6 : frame.rows[i].timestamp < frame.rows[i + 1].timestamp
    /\ \A i \in 1..5 : frame.rows[i].quantity = 10 /\ frame.rows[i].profit_loss = 1
    /\ frame.rows[6].profit_loss = -5
    /\ frame.rows[7].quantity = 100

\* C6 (as claimed): on that log detect_revenge_trading returns detected = true with
\* exactly one evidence entry.
C6_ExampleDetected ==
    IsRevengeExample(input) =>
        \A r \in ResultsOf("revenge_trading") : r.detected /\ Len(r.examples) = 1

\* C6 (amended): on that log only the seventh row follows a loss, fewer than the 5
\* post-loss rows the detector requires (and its z-score does not exceed 3), so
\* detect_revenge_trading returns detected = false, metric "Insufficient Data", no evidence.
C6_ExampleInsufficient ==
    IsRevengeExample(input) =>
        /\ PostLoss(df) = {7}
        /\ ~ZAbove3(df, 7)
        /\ AboveTwiceMean(df, 7)
        /\ \A r \in ResultsOf("revenge_trading") :
               ~r.detected /\ r.metric = "Insufficient Data" /\ r.examples = <<>>

C6_Witness == IsRevengeExample(input) /\ Returned("detect_revenge_trading")

\* the number of trades in clock-hour h
BucketCount(d, h) ==
    Cardinality({i \in 1..Len(d.rows) : d.rows[i].timestamp \div SecondsPerHour = h})

Buckets(d) == {d.rows[i].timestamp \div SecondsPerHour : i \in 1..Len(d.rows)}

\* C7: on a non-empty log detect_overtrading detects exactly when some clock-hour
\* holds more than 150 trades and its metric is "<max> trades/hr (Limit: 150)" for the
\* largest count per hour: 150 in one hour is not detected, 151 is.
C7_Overtrading ==
    ~empty(df) =>
        \A r \in ResultsOf("overtrading") :
            /\ r.detected <=> \E h \in Buckets(df) : BucketCount(df, h) > 150
            /\ \E h \in Buckets(df) :
                   /\ \A g \in Buckets(df) : BucketCount(df, g) <= BucketCount(df, h)
                   /\ r.metric = str(BucketCount(df, h)) \o " trades/hr (Limit: 150)"
                   /\ BucketCount(df, h) = 150 => ~r.detected
                   /\ BucketCount(df, h) = 151 =>
                          r.detected /\ r.metric = "151 trades/hr (Limit: 150)"

\* 151 trades of one clock-hour have been detected
C7_Witness ==
    /\ Returned("detect_overtrading")
    /\ ret.value.detected
    /\ ret.value.metric = "151 trades/hr (Limit: 150)"
    /\ Len(ret.value.examples) = 1

IsBuy(d, i) == upper(d.rows[i].side) = "BUY"

\* some k consecutive rows are all buys or all not buys
HasRun(d, k) ==
    \E lo \in 1..(Len(d.rows) - k + 1) : \A i \in lo..(lo + k - 1) : IsBuy(d, i) = IsBuy(d, lo)

FifteenBuysThenSell(d) ==
    Len(d.rows) = 16 /\ (\A i \in 1..15 : IsBuy(d, i)) /\ ~IsBuy(d, 16)

\* C8: on a non-empty log detect_monte_carlo_fallacy reports as max_streak the length
\* of the longest run of consecutive rows of one buy/not-buy class and detects exactly
\* when it is at least 15: 15 BUY rows then 1 SELL give 15 and detected, 14 do not detect.
C8_MonteCarlo ==
    ~empty(df) =>
        \A r \in ResultsOf("monte_carlo") :
            /\ \E k \in 1..Len(df.rows) :
                   /\ r.metric = "Max streak: " \o str(k)
                   /\ HasRun(df, k)
                   /\ ~HasRun(df, k + 1)
            /\ r.detected <=> HasRun(df, 15)
            /\ FifteenBuysThenSell(df) => r.detected /\ r.metric = "Max streak: 15"
            /\ r.metric = "Max streak: 14" => ~r.detected

\* 15 BUY rows followed by 1 SELL row have been analysed
C8_Witness ==
    /\ Returned("detect_monte_carlo_fallacy")
    /\ FifteenBuysThenSell(df)
    /\ ret.value.detected

\* how many rows of d / points of a curve show this time, pnl and equity
RowsLike(d, time, pnl) ==
    Cardinality({i \in 1..Len(d.rows) :
        str(d.rows[i].timestamp) = time /\ d.rows[i].profit_loss = pnl})

PointsLike(curve, time, pnl) ==
    Cardinality({k \in 1..Len(curve) : curve[k].time = time /\ curve[k].pnl = pnl})

\* the timestamp a point's time was printed from
TimeOf(d, point) ==
    CHOOSE t \in {d.rows[i].timestamp : i \in 1..Len(d.rows)} : str(t) = point.time

\* C9: on a non-empty log get_equity_curve returns one point per row in ascending
\* timestamp order; without a balance column the equity of the k-th point is the sum of
\* profit_loss over the first k rows ([5, -3, 2] gives [5, 2, 4]), with a balance column
\* the equity of a point is its row's balance.
C9_EquityCurve ==
    (Returned("get_equity_curve") /\ ~empty(df)) =>
        LET curve == ret.value
        IN  /\ Len(curve) = Len(df.rows)
            /\ \A k \in 1..Len(curve) :
                   PointsLike(curve, curve[k].time, curve[k].pnl)
                       = RowsLike(df, curve[k].time, curve[k].pnl)
            /\ \A k \in 1..(Len(curve) - 1) : TimeOf(df, curve[k]) <= TimeOf(df, curve[k + 1])
            /\ "balance" \notin df.columns =>
                   \A k \in 1..Len(curve) :
                       curve[k].equity = SumSeq(SubSeq(Column(curve, "pnl"), 1, k))
            /\ "balance" \in df.columns =>
                   \A k \in 1..Len(curve) :
                       Cardinality({j \in 1..Len(curve) :
                           curve[j].time = curve[k].time /\ curve[j].pnl = curve[k].pnl
                           /\ curve[j].equity = curve[k].equity})
                       = Cardinality({i \in 1..Len(df.rows) :
                           str(df.rows[i].timestamp) = curve[k].time
                           /\ df.rows[i].profit_loss = curve[k].pnl
                           /\ df.rows[i].balance = curve[k].equity})
            /\ Column(curve, "pnl") = <<5, -3, 2>> /\ "balance" \notin df.columns =>
                   Column(curve, "equity") = <<5, 2, 4>>

\* the curve of the log with profit_loss [5, -3, 2] and no balance column
C9_Witness ==
    /\ Returned("get_equity_curve")
    /\ "balance" \notin df.columns
    /\ Column(df.rows, "profit_loss") = <<5, -3, 2>>
    /\ Column(ret.value, "equity") = <<5, 2, 4>>

Subjects(names) ==
    Returned("get_radar_data") =>
        Len(ret.value) = 6 /\ \A k \in 1..6 : ret.value[k].subject = names[k]

RadarKeys ==
    <<"overtrading", "loss_aversion", "revenge_trading", "disposition", "monte_carlo",
      "recency_bias">>

\* C10 (as claimed): get_radar_data returns six {subject, score, fullMark} entries in the
\* order Overtrading, Loss Aversion, Revenge Trading, Disposition, Monte Carlo,
\* Recency Bias; a score is 100 if the bias is detected in the AnalysisResult, else 20,
\* and every fullMark is 150.
C10_RadarAsSpecified ==
    Returned("get_radar_data") =>
        /\ Subjects(<<"Overtrading", "Loss Aversion", "Revenge Trading", "Disposition",
                      "Monte Carlo", "Recency Bias">>)
        /\ \A k \in 1..6 :
               /\ DOMAIN ret.value[k] = {"subject", "score", "fullMark"}
               /\ ret.value[k].score = IF results[1][RadarKeys[k]].detected THEN 100 ELSE 20
               /\ ret.value[k].fullMark = 150

\* C10 (amended): get_radar_data returns six {subject, A, fullMark} entries (the score
\* is the field A) in the order Overtrading, Loss Aversion, Revenge, Disposition,
\* Monte Carlo, Recency; A is 100 if the bias is detected in the AnalysisResult, else 20,
\* never another value, and every fullMark is 150.
C10_Radar ==
    Returned("get_radar_data") =>
        /\ results # <<>>
        /\ Subjects(<<"Overtrading", "Loss Aversion", "Revenge", "Disposition",
                      "Monte Carlo", "Recency">>)
        /\ \A k \in 1..6 :
               /\ DOMAIN ret.value[k] = {"subject", "A", "fullMark"}
               /\ ret.value[k].A = IF results[1][RadarKeys[k]].detected THEN 100 ELSE 20
               /\ ret.value[k].A \in {100, 20}
               /\ ret.value[k].fullMark = 150

\* a radar with detected and undetected biases has been returned
C10_Witness ==
    /\ Returned("get_radar_data")
    /\ \E k \in 1..6 : ret.value[k].A = 100
    /\ \E k \in 1..6 : ret.value[k].A = 20

\* the columns the detectors write into self.df
HelperColumns == {"hour", "prev_pl", "is_buy"}

\* C11 (as claimed): after any sequence of detector, run_all_tests, get_radar_data and
\* get_equity_curve calls the log held by the instance is as right after construction:
\* the same rows in the same order, the same set of columns, the same field values.
C11_LogImmutable == df \in BiasDetector(input)

\* one call leaves every row in its place with its index label and its value in every
\* column the log had before the call, and adds no column but hour, prev_pl and is_buy
LogKept ==
    /\ df.columns \subseteq df'.columns
    /\ df'.columns \ df.columns \subseteq HelperColumns
    /\ Len(df'.rows) = Len(df.rows)
    /\ \A i \in 1..Len(df.rows) :
           /\ DOMAIN df'.rows[i] = {"name"} \cup df'.columns
           /\ \A c \in {"name"} \cup df.columns : df'.rows[i][c] = df.rows[i][c]
    /\ empty(df) => df' = df
    /\ (~empty(df) /\ Returned("detect_overtrading")') => "hour" \in df'.columns
    /\ (~empty(df) /\ Returned("detect_revenge_trading")') => "prev_pl" \in df'.columns
    /\ (~empty(df) /\ Returned("detect_monte_carlo_fallacy")') => "is_buy" \in df'.columns
    /\ (~empty(df) /\ Returned("run_all_tests")') => HelperColumns \subseteq df'.columns
    /\ (Returned("detect_loss_aversion")' \/ Returned("detect_disposition_effect")'
        \/ Returned("detect_recency_bias")' \/ Returned("get_equity_curve")') => df' = df

\* C11 (amended): every call keeps the rows of the log in the same order and keeps the
\* value of every column the log already has, so the columns of the constructed log never
\* change; but the set of columns grows: on a non-empty log detect_overtrading writes the
\* column hour, detect_revenge_trading prev_pl and detect_monte_carlo_fallacy is_buy (and
\* run_all_tests, which calls them, all three); the other calls leave the log as it is.
C11_LogOnlyGrows == [][LogKept]_vars

\* an instance whose log has got the three helper columns, after a later call
C11_Witness ==
    /\ Returned("get_equity_curve")
    /\ HelperColumns \subseteq df.columns
    /\ Len(df.rows) >= 2
    /\ input.columns \cap HelperColumns = {}

\* head(3) bounds the evidence of overtrading and monte_carlo, head(5) / tail(5) the others
MaxExamples ==
    [overtrading |-> 3, loss_aversion |-> 5, revenge_trading |-> 5, monte_carlo |-> 3,
     disposition |-> 5, recency_bias |-> 5]

\* C12: for every log and each of the six detectors the returned examples list is
\* non-empty exactly when detected is true: it holds between 1 and 5 entries (between 1
\* and 3 for overtrading and monte_carlo) when detected is true and is empty otherwise.
C12_ExamplesIffDetected ==
    \A bias \in Biases :
        \A r \in ResultsOf(bias) :
            /\ r.detected <=> (r.examples # <<>>)
            /\ r.detected => Len(r.examples) \in 1..MaxExamples[bias]
            /\ ~r.detected => r.examples = <<>>

\* run_all_tests has returned verdicts of both kinds on a log with more than three busy
\* hours and more than three long streaks: the evidence of each is cut to three entries
C12_Witness ==
    /\ Returned("run_all_tests")
    /\ Cardinality({h \in Buckets(df) : BucketCount(df, h) > overtrading_threshold}) > 3
    /\ ret.value.overtrading.detected /\ Len(ret.value.overtrading.examples) = 3
    /\ ret.value.monte_carlo.detected /\ Len(ret.value.monte_carlo.examples) = 3
    /\ ~ret.value.loss_aversion.detected /\ ret.value.loss_aversion.examples = <<>>

\* how many points of a curve with this time and pnl are labelled as revenge trades,
\* and how many of the detector's anomalies are rows with this time and pnl
RevengeLabelled(curve, time, pnl) ==
    Cardinality({k \in 1..Len(curve) :
        curve[k].time = time /\ curve[k].pnl = pnl /\ curve[k].bias = "Revenge Trade"})

AnomaliesLike(d, time, pnl) ==
    Cardinality({i \in Anomalies(d) :
        str(d.rows[i].timestamp) = time /\ d.rows[i].profit_loss = pnl})

\* the curve just returned labels a point for every anomaly of the detector, and labels
\* at least one point if the stored verdict of detect_revenge_trading is detected
CurveLabelsAnomalies ==
    LET curve == ret.value
    IN  /\ \A r \in ResultsOf("revenge_trading") :
               r.detected => \E k \in 1..Len(curve) : curve[k].bias = "Revenge Trade"
        /\ RevengeAnalysed(df) =>
               \A i \in Anomalies(df) :
                   RevengeLabelled(curve, str(df.rows[i].timestamp), df.rows[i].profit_loss)
                       >= AnomaliesLike(df, str(df.rows[i].timestamp), df.rows[i].profit_loss)

C13_AnomaliesLabelledDistinct ==
    (Returned("get_equity_curve") /\ DistinctTimestamps(df)) => CurveLabelsAnomalies

====
